---- MODULE Spec2Model ----
(***************************************************************************)
(* Model of mine_sim.py: a discrete-event simulation of proof-of-work      *)
(* mining among miners with network latency, forks and uncle rewards.      *)
(*                                                                         *)
(* Units.  Time is counted in timesteps (time = timesteps * TIMESTEP in    *)
(* the source), so an event's time is an integer number of timesteps.      *)
(* Balances are counted in 1/32 of a coin, the smallest amount the source  *)
(* ever adds (BLOCKREWARD / 32), so every balance is an exact integer.     *)
(* Blocks are objects of the source; here a block is its index in the      *)
(* sequence blocks (its identity), 0 standing for None.                    *)
(***************************************************************************)
EXTENDS Integers, Sequences, FiniteSets, TLC

VARIABLES
    MINERS,            \* the list of miners in competition (module configuration)
    blocks,            \* every Block object constructed so far; blocks[1] is the genesis block
    minedAt,           \* minedAt[b]: the timestep in which block b was constructed (history)
    last_block,        \* last_block[m]: Blockchain.last_block of miner m's chainstate
    potential_uncles,  \* potential_uncles[m]: Blockchain.potential_uncles of miner m
    pending,           \* EventQueue.pending
    timesteps,         \* the main loop's tick counter
    pc,                \* position in the main loop's body: "mine", "process" or "advance"
    idx,               \* index into MINERS of the for loop over the miners
    executed,          \* the events run by the latest call of EventQueue.process, in order (history)
    delivered,         \* delivered[<<m, b>>]: how many events delivering block b to miner m
                       \* were run so far, for the pairs with at least one (history)
    maxDone            \* <<t>>, t the largest time of the events run by the calls of process
                       \* before the latest one, <<>> if they ran none (history)

vars == <<MINERS, blocks, minedAt, last_block, potential_uncles, pending,
          timesteps, pc, idx, executed, delivered, maxDone>>

(***************************************************************************)
(* Bounds of the model.                                                    *)
(***************************************************************************)
MaxBlocks == 5         \* blocks constructed in a run of three or more miners (genesis included)
MaxTicks == 3          \* last timestep of a run of three or more miners
MaxBlocksDeep == 10    \* blocks constructed in a run of at most two miners
MaxBlocksFree == 6     \* blocks of a run under free scheduling, genesis included
MaxTicksDeep == 7      \* last timestep of a run of at most two miners
MaxBlocksLate == 11    \* blocks constructed in a run of Duckworth and Alice
MaxTicksLate == 8      \* last timestep of a run of Duckworth and Alice

(***************************************************************************)
(* Configuration.                                                          *)
(***************************************************************************)
None == "None"
NoBlock == 0

Names == {"Alice", "Bob", "Charlie", "Duckworth"}

hashrate(m) ==
    CASE m = "Alice" -> 30
      [] m = "Bob" -> 20
      [] m = "Charlie" -> 5
      [] m = "Duckworth" -> 30

BLOCKTIME == 15
BLOCKREWARD == 3
TicksPerSecond == 100      \* 1 / TIMESTEP
BalanceUnit == 32          \* balances are kept in 1/32 coin

\* The samplers of LATENCIES, in timesteps, scaled down so that a run of a few
\* timesteps sees the deliveries: 0.1 s is 1 timestep on the fast links, and
\* 105 s (7 block times) is 7 timesteps on the slow ones.  A fixed delay is
\* one value.  The fast gauss sampler is values around its mean, one of them 0
\* and one negative since the normal distribution has unbounded support.  The
\* slow gauss sampler is its mean alone.
LATENCIES ==
    [p \in {<<"Alice", "Bob">>, <<"Alice", "Charlie">>, <<"Alice", "Duckworth">>,
            <<"Bob", "Duckworth">>, <<"Charlie", "Duckworth">>} |->
        CASE p = <<"Alice", "Bob">> -> {1}
          [] p = <<"Alice", "Charlie">> -> {-2, 0, 1}
          [] OTHER -> {7}]

DefaultLatency == {2}

latency_to(self, miner) ==
    IF self = miner THEN {0}
    ELSE IF <<self, miner>> \in DOMAIN LATENCIES THEN LATENCIES[<<self, miner>>]
    ELSE IF <<miner, self>> \in DOMAIN LATENCIES THEN LATENCIES[<<miner, self>>]
    ELSE DefaultLatency

RECURSIVE SumHash(_)
SumHash(ms) == IF ms = <<>> THEN 0 ELSE hashrate(Head(ms)) + SumHash(Tail(ms))

TOTAL_HASHPOWER == SumHash(MINERS)

Range(s) == {s[i] : i \in DOMAIN s}

(***************************************************************************)
(* Block                                                                   *)
(***************************************************************************)
RECURSIVE UncleRewardsSwapped(_, _, _, _, _)
\* UncleRewards with the height difference taken the other way round.
UncleRewardsSwapped(B, bal, height, miner, uncles) ==
    IF uncles = <<>> THEN bal
    ELSE LET uncle == B[Head(uncles)]
             b1 == [bal EXCEPT ![miner] = @ + (BLOCKREWARD * BalanceUnit) \div 32]
             b2 == [b1 EXCEPT ![uncle.miner] =
                        @ + ((uncle.height - height + 8) * BLOCKREWARD * BalanceUnit) \div 8]
         IN  UncleRewardsSwapped(B, b2, height, miner, Tail(uncles))

RECURSIVE UncleRewards(_, _, _, _, _)
\* The for loop of Block.__init__ over uncles[i..], applied to balances bal.
UncleRewards(B, bal, height, miner, uncles) ==
    IF uncles = <<>> THEN bal
    ELSE LET uncle == B[Head(uncles)]
             b1 == [bal EXCEPT ![miner] = @ + (BLOCKREWARD * BalanceUnit) \div 32]
             b2 == [b1 EXCEPT ![uncle.miner] =
                        @ + ((height - uncle.height + 8) * BLOCKREWARD * BalanceUnit) \div 8]
         IN  UncleRewards(B, b2, height, miner, Tail(uncles))

\* Block(height, miner, uncles, previous), constructed in the heap B.
Block(B, height, miner, uncles, previous) ==
    LET bal0 == IF previous # NoBlock THEN B[previous].balances
                ELSE [m \in Names \cup {None} |-> 0]
        bal1 == IF miner # None
                THEN [bal0 EXCEPT ![miner] = @ + BLOCKREWARD * BalanceUnit]
                ELSE bal0
    IN  [height |-> height, previous |-> previous, miner |-> miner, uncles |-> uncles,
         balances |-> UncleRewards(B, bal1, height, miner, uncles)]

RECURSIVE walk_skip_cited(_, _, _)
\* walk without the test of cur_block.uncles.
walk_skip_cited(B, self, cur_block) ==
    IF B[cur_block].height # B[self].height
    THEN IF self = cur_block THEN FALSE
         ELSE walk_skip_cited(B, self, B[cur_block].previous)
    ELSE B[cur_block].previous = B[self].previous

RECURSIVE walk(_, _, _)
\* The while loop of can_be_uncle_of and the return that follows it.
walk(B, self, cur_block) ==
    IF B[cur_block].height # B[self].height
    THEN IF self = cur_block THEN FALSE
         ELSE IF self \in Range(B[cur_block].uncles) THEN FALSE
         ELSE walk(B, self, B[cur_block].previous)
    ELSE B[cur_block].previous = B[self].previous

\* can_be_uncle_of rejecting a block as high as other.
can_be_uncle_of_strict(B, self, other) ==
    IF B[self].height >= B[other].height \/ B[self].height + 6 < B[other].height
    THEN FALSE
    ELSE walk(B, self, other)

\* can_be_uncle_of with a window of 7 generations.
can_be_uncle_of_wide(B, self, other) ==
    IF B[self].height > B[other].height \/ B[self].height + 7 < B[other].height
    THEN FALSE
    ELSE walk(B, self, other)

\* can_be_uncle_of with a window of 5 generations.
can_be_uncle_of_narrow(B, self, other) ==
    IF B[self].height > B[other].height \/ B[self].height + 5 < B[other].height
    THEN FALSE
    ELSE walk(B, self, other)

can_be_uncle_of(B, self, other) ==
    IF B[self].height > B[other].height \/ B[self].height + 6 < B[other].height
    THEN FALSE
    ELSE walk(B, self, other)

(***************************************************************************)
(* Blockchain                                                              *)
(***************************************************************************)
genesis_block == 1

\* update adopting a block as high as last_block.
update_adopts_tie(B, cs, new_block) ==
    IF B[cs.last_block].height <= B[new_block].height
    THEN [cs EXCEPT !.last_block = new_block]
    ELSE IF can_be_uncle_of(B, new_block, cs.last_block)
    THEN [cs EXCEPT !.potential_uncles = Append(@, new_block)]
    ELSE cs

\* update adopting every block of another height than last_block's.
update_adopts_lower(B, cs, new_block) ==
    IF B[cs.last_block].height # B[new_block].height
    THEN [cs EXCEPT !.last_block = new_block]
    ELSE IF can_be_uncle_of(B, new_block, cs.last_block)
    THEN [cs EXCEPT !.potential_uncles = Append(@, new_block)]
    ELSE cs

\* Blockchain.update: the chainstate [last_block, potential_uncles] after it
\* received new_block.
update(B, cs, new_block) ==
    IF B[cs.last_block].height < B[new_block].height
    THEN [cs EXCEPT !.last_block = new_block]
    ELSE IF can_be_uncle_of(B, new_block, cs.last_block)
    THEN [cs EXCEPT !.potential_uncles = Append(@, new_block)]
    ELSE cs

RECURSIVE Filter(_, _, _)
Filter(B, s, tip) ==
    IF s = <<>> THEN <<>>
    ELSE IF can_be_uncle_of(B, Head(s), tip)
         THEN <<Head(s)>> \o Filter(B, Tail(s), tip)
         ELSE Filter(B, Tail(s), tip)

\* prune_uncle_candidates keeping every candidate.
prune_keep_all(B, cs) == cs

prune_uncle_candidates(B, cs) ==
    [cs EXCEPT !.potential_uncles = Filter(B, cs.potential_uncles, cs.last_block)]

\* s[1:]
FromOne(s) == SubSeq(s, 2, Len(s))

\* s[:2] and s[2:]
FirstTwo(s) == SubSeq(s, 1, IF Len(s) < 2 THEN Len(s) ELSE 2)
FromTwo(s) == SubSeq(s, 3, Len(s))

\* append with the new block sharing its parent's balances mapping (no copy):
\* the rewards of the new block show in the parent too.
append_shared_balances(B, cs, miner) ==
    LET pruned == prune_uncle_candidates(B, cs)
        use_uncles == FirstTwo(pruned.potential_uncles)
        new == Block(B, B[pruned.last_block].height + 1, miner, use_uncles, pruned.last_block)
    IN  [heap |-> Append([B EXCEPT ![pruned.last_block].balances = new.balances], new),
         cs |-> [last_block |-> Len(B) + 1,
                 potential_uncles |-> FromTwo(pruned.potential_uncles)]]

\* Blockchain.append: the pair of the heap and the chainstate after miner
\* appended a block to chainstate cs.
append(B, cs, miner) ==
    LET pruned == prune_uncle_candidates(B, cs)
        use_uncles == FirstTwo(pruned.potential_uncles)
        new == Block(B, B[pruned.last_block].height + 1, miner, use_uncles, pruned.last_block)
    IN  [heap |-> Append(B, new),
         cs |-> [last_block |-> Len(B) + 1,
                 potential_uncles |-> FromTwo(pruned.potential_uncles)]]

(***************************************************************************)
(* EventQueue                                                              *)
(***************************************************************************)
RECURSIVE InsertSorted(_, _)
\* One step of a stable sort by time: e goes after every event of s whose time
\* is at most e's.
InsertSorted(s, e) ==
    IF s = <<>> THEN <<e>>
    ELSE IF Head(s).time <= e.time THEN <<Head(s)>> \o InsertSorted(Tail(s), e)
    ELSE <<e>> \o s

RECURSIVE SortByTime(_)
\* list.sort(key=lambda x: x.time): a stable sort.
SortByTime(s) ==
    IF s = <<>> THEN <<>>
    ELSE InsertSorted(SortByTime(SubSeq(s, 1, Len(s) - 1)), s[Len(s)])

\* schedule without the sort.
schedule_unsorted(q, event) == Append(q, event)

schedule(q, event) == SortByTime(Append(q, event))

RECURSIVE process(_, _, _)
\* EventQueue.process at time now, the events' callbacks included: st is
\* [pending, tips, pools, executed].
process(B, st, now) ==
    IF st.pending # <<>> /\ Head(st.pending).time <= now
    THEN LET e == Head(st.pending)
             cs == update(B, [last_block |-> st.tips[e.miner],
                              potential_uncles |-> st.pools[e.miner]], e.block)
         IN  process(B, [pending |-> Tail(st.pending),
                         tips |-> [st.tips EXCEPT ![e.miner] = cs.last_block],
                         pools |-> [st.pools EXCEPT ![e.miner] = cs.potential_uncles],
                         executed |-> Append(st.executed, e)], now)
    ELSE st

(***************************************************************************)
(* Miner                                                                   *)
(***************************************************************************)
\* The values random.random() may return, in ten-thousandths.
RandomSamples == {0, 1, 5000}

\* not (random * (TOTAL_HASHPOWER / hashrate) >= TIMESTEP / BLOCKTIME)
Discovers(m, r) ==
    ~ (r * TOTAL_HASHPOWER * TicksPerSecond * BLOCKTIME >= hashrate(m) * 10000)

RECURSIVE ScheduleAllNoLatency(_, _, _, _, _, _)
\* ScheduleAll with the events' time set to now, the latency left out.
ScheduleAllNoLatency(q, ms, self, block, now, lat) ==
    IF ms = <<>> THEN q
    ELSE IF Head(ms) # self
         THEN ScheduleAllNoLatency(schedule(q, [time |-> now, miner |-> Head(ms),
                                                block |-> block]),
                                   Tail(ms), self, block, now, lat)
         ELSE ScheduleAllNoLatency(q, Tail(ms), self, block, now, lat)

RECURSIVE ScheduleAllToAll(_, _, _, _, _, _)
\* ScheduleAll without the test miner != self.
ScheduleAllToAll(q, ms, self, block, now, lat) ==
    IF ms = <<>> THEN q
    ELSE ScheduleAllToAll(schedule(q, [time |-> now + lat[Head(ms)], miner |-> Head(ms),
                                       block |-> block]),
                          Tail(ms), self, block, now, lat)

RECURSIVE ScheduleAll(_, _, _, _, _, _)
\* The for loop of simulate_mining over the miners ms: lat[m] is the latency
\* sample drawn for miner m.
ScheduleAll(q, ms, self, block, now, lat) ==
    IF ms = <<>> THEN q
    ELSE IF Head(ms) # self
         THEN ScheduleAll(schedule(q, [time |-> now + lat[Head(ms)], miner |-> Head(ms),
                                       block |-> block]),
                          Tail(ms), self, block, now, lat)
         ELSE ScheduleAll(q, Tail(ms), self, block, now, lat)

(***************************************************************************)
(* Main loop                                                               *)
(***************************************************************************)
time == timesteps

BlockCap ==
    IF Len(MINERS) >= 3 THEN MaxBlocks
    ELSE IF MINERS[1] = "Duckworth" THEN MaxBlocksLate
    ELSE MaxBlocksDeep
TickCap ==
    IF Len(MINERS) >= 3 THEN MaxTicks
    ELSE IF MINERS[1] = "Duckworth" THEN MaxTicksLate
    ELSE MaxTicksDeep

\* LoopNext with events.process() called inside the for loop over the miners.
LoopNextInterleaved(p, i, n) ==
    CASE p = "mine" -> <<"process", i>>
      [] p = "process" /\ i < n -> <<"mine", i + 1>>
      [] p = "process" /\ i >= n -> <<"advance", 1>>
      [] OTHER -> <<"mine", 1>>

\* The position that follows position <<p, i>> of the loop body.
LoopNext(p, i, n) ==
    CASE p = "mine" /\ i < n -> <<"mine", i + 1>>
      [] p = "mine" /\ i >= n -> <<"process", 1>>
      [] p = "process" -> <<"advance", 1>>
      [] OTHER -> <<"mine", 1>>

Goto(p, i) ==
    /\ pc' = LoopNext(p, i, Len(MINERS))[1]
    /\ idx' = LoopNext(p, i, Len(MINERS))[2]

InitWith(ms) ==
    /\ MINERS = ms
    /\ blocks = <<Block(<<>>, 0, None, <<>>, NoBlock)>>
    /\ minedAt = <<0>>
    /\ last_block = [m \in Range(ms) |-> genesis_block]
    /\ potential_uncles = [m \in Range(ms) |-> <<>>]
    /\ pending = <<>>
    /\ timesteps = 0
    /\ pc = "mine"
    /\ idx = 1
    /\ executed = <<>>
    /\ delivered = <<>>
    /\ maxDone = <<>>

Init == InitWith(<<"Alice", "Bob", "Charlie">>)

InitDeep == InitWith(<<"Alice", "Duckworth">>)

\* simulate_mining returns False: the trial failed.
MineFail ==
    /\ pc = "mine"
    /\ \E r \in RandomSamples : ~ Discovers(MINERS[idx], r)
    /\ Goto(pc, idx)
    /\ UNCHANGED <<MINERS, blocks, minedAt, last_block, potential_uncles, pending,
                   timesteps, executed, delivered, maxDone>>

\* simulate_mining finds a block, appends it and schedules its deliveries.
MineSuccess ==
    /\ pc = "mine"
    /\ Len(blocks) < BlockCap
    /\ LET self == MINERS[idx] IN
       /\ \E r \in RandomSamples : Discovers(self, r)
       /\ LET res == append(blocks, [last_block |-> last_block[self],
                                     potential_uncles |-> potential_uncles[self]], self)
          IN  /\ blocks' = res.heap
              /\ minedAt' = Append(minedAt, timesteps)
              /\ last_block' = [last_block EXCEPT ![self] = res.cs.last_block]
              /\ potential_uncles' = [potential_uncles EXCEPT ![self] = res.cs.potential_uncles]
              /\ \E lat \in [Range(MINERS) -> UNION {latency_to(self, m) : m \in Range(MINERS)}] :
                    /\ \A m \in Range(MINERS) : lat[m] \in latency_to(self, m)
                    /\ pending' = ScheduleAll(pending, MINERS, self, res.cs.last_block,
                                              time, lat)
    /\ Goto(pc, idx)
    /\ UNCHANGED <<MINERS, timesteps, executed, delivered, maxDone>>

RECURSIVE CountRuns(_, _)
\* The count d with the events of s added.
CountRuns(s, d) ==
    IF s = <<>> THEN d
    ELSE LET p == <<Head(s).miner, Head(s).block>>
         IN  CountRuns(Tail(s), IF p \in DOMAIN d THEN [d EXCEPT ![p] = @ + 1]
                                ELSE d @@ (p :> 1))

RECURSIVE MaxTime(_, _)
\* m, raised to the largest time of the events of s.
MaxTime(s, m) ==
    IF s = <<>> THEN m
    ELSE MaxTime(Tail(s), IF m = <<>> \/ m[1] < Head(s).time THEN <<Head(s).time>> ELSE m)

\* events.process()
Process ==
    /\ pc = "process"
    /\ LET st == process(blocks, [pending |-> pending, tips |-> last_block,
                                  pools |-> potential_uncles, executed |-> <<>>], time)
       IN  /\ pending' = st.pending
           /\ last_block' = st.tips
           /\ potential_uncles' = st.pools
           /\ executed' = st.executed
           /\ delivered' = CountRuns(st.executed, delivered)
           /\ maxDone' = MaxTime(executed, maxDone)
    /\ Goto(pc, idx)
    /\ UNCHANGED <<MINERS, blocks, minedAt, timesteps>>

\* timesteps += 1
Advance ==
    /\ pc = "advance"
    /\ timesteps < TickCap
    /\ timesteps' = timesteps + 1
    /\ Goto(pc, idx)
    /\ UNCHANGED <<MINERS, blocks, minedAt, last_block, potential_uncles, pending,
                   executed, delivered, maxDone>>

Next == MineFail \/ MineSuccess \/ Process \/ Advance

Spec == Init /\ [][Next]_vars

SpecDeep == InitDeep /\ [][Next]_vars

\* A single miner and no competitors.
InitSolo == InitWith(<<"Alice">>)

SpecSolo == InitSolo /\ [][Next]_vars

\* Duckworth and Alice on their slow link, for one tick more than the latency
\* of the link: a block that arrives when it is 6 generations old can still
\* be cited.
InitLate == InitWith(<<"Duckworth", "Alice">>)

SpecLate == InitLate /\ [][Next]_vars

(***************************************************************************)
(* Free scheduling.  Between Alice and Charlie a latency is a sample of    *)
(* random.gauss(0.2, 0.1) and a trial succeeds whenever random.random()    *)
(* is small enough, so a run may find its blocks in any order of the       *)
(* miners and have each pending event fall due at any tick from the one    *)
(* it was scheduled in on.  The two actions below are the successful       *)
(* trial and the call of one due event, taken in any order; pc names the   *)
(* part of the loop body that ran last.  The time of an event stays the    *)
(* time of its scheduling: the choice of the event stands for the sample.  *)
(***************************************************************************)
InitFree == InitWith(<<"Alice", "Charlie">>)

\* simulate_mining of any miner finds a block.
FreeMine ==
    /\ Len(blocks) < MaxBlocksFree
    /\ \E i \in DOMAIN MINERS :
        LET self == MINERS[i]
            res == append(blocks, [last_block |-> last_block[self],
                                   potential_uncles |-> potential_uncles[self]], self)
        IN  /\ blocks' = res.heap
            /\ minedAt' = Append(minedAt, timesteps)
            /\ last_block' = [last_block EXCEPT ![self] = res.cs.last_block]
            /\ potential_uncles' = [potential_uncles EXCEPT ![self] = res.cs.potential_uncles]
            /\ pending' = ScheduleAll(pending, MINERS, self, res.cs.last_block, time,
                                      [m \in Range(MINERS) |-> 0])
            /\ idx' = i
    /\ pc' = "mine"
    /\ UNCHANGED <<MINERS, timesteps, executed, delivered, maxDone>>

\* events.process() calls one pending event: the miner it names receives the
\* block it carries.
FreeDeliver ==
    /\ \E i \in DOMAIN pending :
        LET e == pending[i]
            cs == update(blocks, [last_block |-> last_block[e.miner],
                                  potential_uncles |-> potential_uncles[e.miner]], e.block)
        IN  /\ last_block' = [last_block EXCEPT ![e.miner] = cs.last_block]
            /\ potential_uncles' = [potential_uncles EXCEPT ![e.miner] = cs.potential_uncles]
            /\ pending' = SubSeq(pending, 1, i - 1) \o SubSeq(pending, i + 1, Len(pending))
            /\ executed' = <<e>>
            /\ delivered' = CountRuns(<<e>>, delivered)
    /\ pc' = "process"
    /\ UNCHANGED <<MINERS, blocks, minedAt, timesteps, idx, maxDone>>

NextFree == FreeMine \/ FreeDeliver

SpecFree == InitFree /\ [][NextFree]_vars

(***************************************************************************)
(* Notions the properties are stated with.                                 *)
(***************************************************************************)
RECURSIVE Chain(_, _)
\* The blocks on the parent path from b to the genesis block, b included.
Chain(B, b) == IF b = NoBlock THEN {} ELSE {b} \cup Chain(B, B[b].previous)

\* The blocks on the parent path of b, b excluded.
Ancestors(B, b) == Chain(B, B[b].previous)

Eligible(c, h) == can_be_uncle_of(blocks, c, h)

\* c has the parent of some block of h's chain (h included) at c's height, at
\* most 6 generations below h.
SharesParentOnChain(c, h) ==
    \E a \in Chain(blocks, h) :
        /\ blocks[a].height = blocks[c].height
        /\ blocks[a].previous = blocks[c].previous
        /\ blocks[h].height - blocks[a].height <= 6

\* No block of h's chain above c's height cites c.
NotCitedOnChain(c, h) ==
    \A p \in Chain(blocks, h) :
        blocks[p].height > blocks[c].height => c \notin Range(blocks[p].uncles)

RECURSIVE UncleShare(_, _, _)
\* What the uncles b cites at positions i.. pay to miner m, in 1/32 coin.
UncleShare(b, m, i) ==
    IF i > Len(blocks[b].uncles) THEN 0
    ELSE LET u == blocks[blocks[b].uncles[i]]
         IN  (IF u.miner = m
              THEN ((blocks[b].height - u.height + 8) * BLOCKREWARD * BalanceUnit) \div 8
              ELSE 0) + UncleShare(b, m, i + 1)

\* C1: every block B with a parent P is one higher than P, and its balances
\* are P's plus the block reward and 1/32 of it per uncle for B's miner, plus
\* (B.height - U.height + 8)/8 of it for the miner of each uncle U; every
\* other balance is P's.
C1_BlockRewards ==
    \A b \in DOMAIN blocks :
        blocks[b].previous # NoBlock =>
            LET P == blocks[blocks[b].previous] IN
            /\ blocks[b].height = P.height + 1
            /\ \A m \in DOMAIN blocks[b].balances :
                  blocks[b].balances[m] =
                      P.balances[m]
                      + (IF m = blocks[b].miner
                         THEN BLOCKREWARD * BalanceUnit
                              + Len(blocks[b].uncles) * ((BLOCKREWARD * BalanceUnit) \div 32)
                         ELSE 0)
                      + UncleShare(b, m, 1)

\* A block cites two uncles.
C1_Witness == \E b \in DOMAIN blocks : Len(blocks[b].uncles) = 2

C3_AncestorNeverEligible ==
    \A c \in DOMAIN blocks : \A h \in DOMAIN blocks :
        c \in Ancestors(blocks, h) => ~ Eligible(c, h)

C5_HalfOpenWindow ==
    \A c \in DOMAIN blocks : \A h \in DOMAIN blocks :
        (Eligible(c, h) /\ c \notin Chain(blocks, h)) =>
            /\ blocks[h].height - 6 < blocks[c].height
            /\ blocks[c].height <= blocks[h].height

\* C5 as amended: can_be_uncle_of is true only for a candidate whose height
\* is in [head.height - 6, head.height].
C5_ClosedWindow ==
    \A c \in DOMAIN blocks : \A h \in DOMAIN blocks :
        Eligible(c, h) =>
            /\ blocks[h].height - 6 <= blocks[c].height
            /\ blocks[c].height <= blocks[h].height

\* A block off head's chain, exactly 6 below head, is eligible.
C5_Witness ==
    \E c \in DOMAIN blocks : \E h \in DOMAIN blocks :
        /\ Eligible(c, h)
        /\ c \notin Chain(blocks, h)
        /\ blocks[c].height = blocks[h].height - 6

\* C6: every appended block cites at most 2 uncles, each of them eligible
\* for the block's parent.
C6_UnclesEligibleForParent ==
    \A b \in DOMAIN blocks :
        blocks[b].previous # NoBlock =>
            /\ Len(blocks[b].uncles) <= 2
            /\ \A i \in DOMAIN blocks[b].uncles :
                  Eligible(blocks[b].uncles[i], blocks[b].previous)

\* A block cites an uncle that is lower than the block's parent: the parent
\* is not the tip the uncle was a sibling of.
C6_Witness ==
    \E b \in DOMAIN blocks : \E i \in DOMAIN blocks[b].uncles :
        blocks[blocks[b].uncles[i]].height < blocks[blocks[b].previous].height

\* S has the parent of another block X of T's chain, and no block of T's
\* chain cites S.
UncitedSibling(S, T) ==
    /\ \E X \in Chain(blocks, T) :
          /\ X # S
          /\ blocks[X].height = blocks[S].height
          /\ blocks[X].previous = blocks[S].previous
    /\ \A p \in Chain(blocks, T) : S \notin Range(blocks[p].uncles)

\* C7: an uncited sibling S of a block of T's chain is eligible for T while
\* S.height < T.height <= S.height + 6, and not once T.height > S.height + 6.
C7_SiblingEligibleForSixGenerations ==
    \A S \in DOMAIN blocks : \A T \in DOMAIN blocks :
        UncitedSibling(S, T) =>
            /\ (blocks[S].height < blocks[T].height
                /\ blocks[T].height <= blocks[S].height + 6) => Eligible(S, T)
            /\ blocks[T].height > blocks[S].height + 6 => ~ Eligible(S, T)

\* A miner's tip is 7 above an uncited sibling of a block of its chain.
C7_Witness ==
    \E S \in DOMAIN blocks : \E m \in Range(MINERS) :
        /\ UncitedSibling(S, last_block[m])
        /\ blocks[last_block[m]].height = blocks[S].height + 7

\* The position of miner m in MINERS.
IndexOf(m) == CHOOSE i \in DOMAIN MINERS : MINERS[i] = m

\* Event e1 was scheduled before event e2: blocks are numbered as they are
\* mined, and a block's deliveries are scheduled in the order of MINERS.
InsertedBefore(e1, e2) ==
    \/ e1.block < e2.block
    \/ e1.block = e2.block /\ IndexOf(e1.miner) < IndexOf(e2.miner)

\* C8: a call of process at time t runs all and only the pending events with
\* a time <= t, each once, in non-decreasing order of time and ties in the
\* order they were scheduled; the events with a time > t stay pending.
C8_DrainDue ==
    [][(pc = "process" /\ pc' # "process") =>
          /\ executed' = SelectSeq(pending, LAMBDA e : e.time <= time)
          /\ pending' = SelectSeq(pending, LAMBDA e : e.time > time)
          /\ \A i \in DOMAIN executed' : \A j \in DOMAIN executed' :
                i < j => \/ executed'[i].time < executed'[j].time
                         \/ /\ executed'[i].time = executed'[j].time
                            /\ InsertedBefore(executed'[i], executed'[j])]_vars

\* A call of process has run two events of the same time and left an event
\* pending.
C8_Witness ==
    /\ pc = "advance"
    /\ pending # <<>>
    /\ \E i \in DOMAIN executed : \E j \in DOMAIN executed :
          i < j /\ executed[i].time = executed[j].time

\* Miner m's chainstate holds block b.
Knows(m, b) == last_block[m] = b \/ b \in Range(potential_uncles[m])

\* C9: a block mined in a tick reaches no other miner's chainstate before
\* every miner's trial of that tick is done.
C9_TrialsBeforeDelivery ==
    \A m \in Range(MINERS) : \A b \in DOMAIN blocks :
        (Knows(m, b) /\ blocks[b].miner \notin {m, None} /\ minedAt[b] = timesteps)
            => pc = "advance"

\* A miner's chainstate holds a block another miner mined in this very tick.
C9_Witness ==
    \E m \in Range(MINERS) : \E b \in DOMAIN blocks :
        Knows(m, b) /\ blocks[b].miner \notin {m, None} /\ minedAt[b] = timesteps

\* C10: over the whole run no event is run after an event of a strictly
\* larger time: the events of the latest call of process are in order of
\* time, and none is earlier than an event an earlier call ran.
C10_GlobalTimeOrder ==
    /\ \A i \in DOMAIN executed : \A j \in DOMAIN executed :
          i < j => executed[i].time <= executed[j].time
    /\ maxDone # <<>> => \A i \in DOMAIN executed : executed[i].time >= maxDone[1]

\* The number of pending events that deliver block b to miner m.
PendingFor(m, b) ==
    Cardinality({i \in DOMAIN pending : pending[i].miner = m /\ pending[i].block = b})

\* The number of events run so far that delivered block b to miner m.
RunsOf(m, b) == IF <<m, b>> \in DOMAIN delivered THEN delivered[<<m, b>>] ELSE 0

\* C11: every mined block has, for each miner other than its own, exactly one
\* delivery event, pending or run once, and none for its own miner; a pending
\* event's time is the block's mining time plus a latency of the pair; no
\* event leaves the queue unrun; and once a tick's call of process is over no
\* event with a time up to now is left, so every event is run, once, in the
\* first tick at or after its time.
C11_EveryBlockDeliveredOnce ==
    /\ \A b \in DOMAIN blocks \ {genesis_block} : \A m \in Range(MINERS) :
          IF m = blocks[b].miner
          THEN PendingFor(m, b) = 0 /\ RunsOf(m, b) = 0
          ELSE PendingFor(m, b) + RunsOf(m, b) = 1
    /\ \A i \in DOMAIN pending :
          /\ pending[i].block \in DOMAIN blocks \ {genesis_block}
          /\ pending[i].miner \in Range(MINERS)
          /\ (pending[i].time - minedAt[pending[i].block])
                \in latency_to(blocks[pending[i].block].miner, pending[i].miner)
    /\ \A p \in DOMAIN delivered :
          p[1] \in Range(MINERS) /\ p[2] \in DOMAIN blocks \ {genesis_block}
    /\ pc = "advance" => \A i \in DOMAIN pending : pending[i].time > time

\* A block has been delivered to every other miner while another delivery is
\* still pending.
C11_Witness ==
    /\ pending # <<>>
    /\ \E b \in DOMAIN blocks \ {genesis_block} :
          \A m \in Range(MINERS) \ {blocks[b].miner} : RunsOf(m, b) = 1

\* Miner m's chainstate.
ChainState(m) ==
    [last_block |-> last_block[m], potential_uncles |-> potential_uncles[m]]

\* Block N can still be delivered to miner m: another miner mined it and no
\* event has delivered it to m yet.
Deliverable(m, N) == blocks[N].miner \notin {m, None} /\ RunsOf(m, N) = 0

\* The events of s that deliver to miner m.
EventsFor(s, m) == SelectSeq(s, LAMBDA e : e.miner = m)

\* What C12 says of the delivery of N to a chainstate with tip T and pool P:
\* the tip and the pool after it.
TipAfter(N, T) == IF blocks[N].height > blocks[T].height THEN N ELSE T
PoolAfter(N, T, P) ==
    IF blocks[N].height <= blocks[T].height /\ Eligible(N, T) THEN Append(P, N) ELSE P

\* C12: the delivery of block N to a miner with tip T makes N the tip iff
\* N.height > T.height; otherwise the tip stays and N is appended to the pool
\* iff it is eligible for T, and nothing else changes; no miner's tip height
\* ever decreases.
C12_DeliveryEffect ==
    /\ [](\A m \in Range(MINERS) : \A N \in DOMAIN blocks :
             Deliverable(m, N) =>
                 update(blocks, ChainState(m), N) =
                     [last_block |-> TipAfter(N, last_block[m]),
                      potential_uncles |-> PoolAfter(N, last_block[m], potential_uncles[m])])
    /\ [][/\ pc = "process" =>
                \A m \in Range(MINERS) :
                    LET evs == EventsFor(executed', m) IN
                    /\ Len(evs) = 0 => /\ last_block'[m] = last_block[m]
                                       /\ potential_uncles'[m] = potential_uncles[m]
                    /\ Len(evs) = 1 =>
                          /\ last_block'[m] = TipAfter(evs[1].block, last_block[m])
                          /\ potential_uncles'[m] =
                                PoolAfter(evs[1].block, last_block[m], potential_uncles[m])
          /\ \A m \in Range(MINERS) :
                blocks'[last_block'[m]].height >= blocks[last_block[m]].height]_vars

\* A call of process has delivered a block as high as the miner's tip: the
\* tip stayed and the block is in the pool.
C12_Witness ==
    /\ pc = "advance"
    /\ \E i \in DOMAIN executed :
          LET N == executed[i].block
              m == executed[i].miner
          IN  /\ N # last_block[m]
              /\ blocks[N].height = blocks[last_block[m]].height
              /\ N \in Range(potential_uncles[m])

\* C13: every miner's pool holds no block twice, and only blocks that are not
\* on the parent path from the miner's tip to the genesis block.
C13_PoolOffChain ==
    \A m \in Range(MINERS) :
        /\ \A i \in DOMAIN potential_uncles[m] : \A j \in DOMAIN potential_uncles[m] :
              i # j => potential_uncles[m][i] # potential_uncles[m][j]
        /\ \A i \in DOMAIN potential_uncles[m] :
              potential_uncles[m][i] \notin Chain(blocks, last_block[m])

\* C14: the heap of blocks only grows, and no step changes the height, miner,
\* parent, uncles or balances of a block that exists.
C14_BlocksImmutable ==
    [][\A b \in DOMAIN blocks : b \in DOMAIN blocks' /\ blocks'[b] = blocks[b]]_vars

\* A block cites an uncle, and another block has been mined since.
C14_Witness ==
    \E b \in DOMAIN blocks :
        /\ blocks[b].uncles # <<>>
        /\ \E d \in DOMAIN blocks : d > b

\* C15: a failed trial changes no chainstate, no block and no event; the
\* delivery of a block lower than the receiver's tip leaves the tip as it is;
\* and update yields a chainstate (it raises nothing) for every block that can
\* still be delivered.
C15_FailureAndStaleAreNoOps ==
    /\ [](\A m \in Range(MINERS) : \A N \in DOMAIN blocks :
             Deliverable(m, N) =>
                 LET cs == update(blocks, ChainState(m), N) IN
                 /\ cs.last_block \in DOMAIN blocks
                 /\ Range(cs.potential_uncles) \subseteq DOMAIN blocks
                 /\ blocks[N].height < blocks[last_block[m]].height
                       => cs.last_block = last_block[m])
    /\ [][/\ (pc = "mine" /\ blocks' = blocks) =>
                UNCHANGED <<last_block, potential_uncles, pending, delivered>>
          /\ pc = "process" =>
                \A m \in Range(MINERS) :
                    (\A i \in DOMAIN executed' :
                        executed'[i].miner = m =>
                            blocks[executed'[i].block].height < blocks[last_block[m]].height)
                        => last_block'[m] = last_block[m]]_vars

\* A call of process has delivered to a miner a block that is an ancestor of
\* its tip: the block arrived after one of its descendants.
C15_Witness ==
    /\ pc = "advance"
    /\ \E i \in DOMAIN executed :
          executed[i].block \in Ancestors(blocks, last_block[executed[i].miner])

\* The configuration has a miner with a hash rate <= 0 or a pair of miners
\* whose latency sampler can return a delay <= 0.
NonPositiveConfiguration ==
    \/ \E m \in Range(MINERS) : hashrate(m) <= 0
    \/ \E a \in Range(MINERS) : \E b \in Range(MINERS) \ {a} :
          \E l \in latency_to(a, b) : l <= 0

\* C16: under such a configuration the simulation is rejected at startup: no
\* trial of any tick is ever run, and no event is ever scheduled with a time
\* at or before the time it was created.
C16_BadConfigurationRejected ==
    NonPositiveConfiguration =>
        /\ timesteps = 0 /\ pc = "mine" /\ idx = 1 /\ Len(blocks) = 1
        /\ \A i \in DOMAIN pending : pending[i].time > minedAt[pending[i].block]

\* C17: with a single miner, a successful trial appends exactly one block on
\* the miner's tip, with no uncles and the block reward added to the miner's
\* balance, and schedules nothing; every other step leaves the chain as it
\* is; so the miner's balance is always tip.height * BLOCKREWARD.
C17_SoloMinerChain ==
    /\ [](/\ Len(MINERS) = 1
          /\ pending = <<>>
          /\ \A a \in DOMAIN blocks[last_block[MINERS[1]]].balances :
                blocks[last_block[MINERS[1]]].balances[a] =
                    IF a = MINERS[1]
                    THEN blocks[last_block[MINERS[1]]].height
                            * BLOCKREWARD * BalanceUnit
                    ELSE 0)
    /\ [][LET m == MINERS[1] IN
          IF pc = "mine" /\ blocks' # blocks
          THEN /\ Len(blocks') = Len(blocks) + 1
               /\ SubSeq(blocks', 1, Len(blocks)) = blocks
               /\ last_block'[m] = Len(blocks')
               /\ blocks'[last_block'[m]].previous = last_block[m]
               /\ blocks'[last_block'[m]].height = blocks[last_block[m]].height + 1
               /\ blocks'[last_block'[m]].miner = m
               /\ blocks'[last_block'[m]].uncles = <<>>
               /\ blocks'[last_block'[m]].balances[m] =
                     blocks[last_block[m]].balances[m] + BLOCKREWARD * BalanceUnit
               /\ pending' = <<>>
          ELSE UNCHANGED <<blocks, last_block, potential_uncles, pending>>]_vars

\* The single miner has mined three blocks, and failed a trial in between.
C17_Witness ==
    /\ Len(MINERS) = 1
    /\ blocks[last_block[MINERS[1]]].height = 3
    /\ \E b \in DOMAIN blocks : b > 1 /\ minedAt[b] > minedAt[b - 1] + 1

\* The candidates of pool that can_be_uncle_of accepts for tip, in pool order.
Survivors(pool, tip) == SelectSeq(pool, LAMBDA c : Eligible(c, tip))

\* C18: a step that adds a block is the append of one producer: the new block
\* has the producer's old tip as parent, the producer as miner and, as uncles,
\* the first min(2, n) of the n pool candidates eligible for the old tip, in
\* pool order; the producer's pool becomes the other eligible candidates in
\* pool order; the producer's tip becomes the new block; no other miner's
\* chainstate changes.
C18_AppendTakesFirstTwo ==
    [][Len(blocks') > Len(blocks) =>
        \E self \in Range(MINERS) :
            LET tip == last_block[self]
                surv == Survivors(potential_uncles[self], tip)
                k == IF Len(surv) < 2 THEN Len(surv) ELSE 2
                new == blocks'[Len(blocks')]
            IN  /\ Len(blocks') = Len(blocks) + 1
                /\ SubSeq(blocks', 1, Len(blocks)) = blocks
                /\ new.uncles = SubSeq(surv, 1, k)
                /\ potential_uncles'[self] = SubSeq(surv, k + 1, Len(surv))
                /\ last_block'[self] = Len(blocks')
                /\ new.previous = tip
                /\ new.height = blocks[tip].height + 1
                /\ new.miner = self
                /\ \A m \in Range(MINERS) \ {self} :
                      /\ last_block'[m] = last_block[m]
                      /\ potential_uncles'[m] = potential_uncles[m]]_vars

\* A block was just appended with two uncles, and a candidate stays in its
\* miner's pool.
C18_Witness ==
    /\ pc = "mine"
    /\ Len(blocks) > 1
    /\ Len(blocks[Len(blocks)].uncles) = 2
    /\ last_block[blocks[Len(blocks)].miner] = Len(blocks)
    /\ potential_uncles[blocks[Len(blocks)].miner] # <<>>

\* C19: no block cites one of its own ancestors as an uncle: for every block
\* B and every U in B.uncles, U is not on the parent path from B to genesis.
C19_NoAncestorCited ==
    \A b \in DOMAIN blocks : \A i \in DOMAIN blocks[b].uncles :
        blocks[b].uncles[i] \notin Ancestors(blocks, b)

\* C20: along the parent path from any block to genesis each block is cited
\* as an uncle at most once: no two blocks of the path cite the same uncle,
\* and the uncles of one block are distinct.
C20_CitedOncePerChain ==
    \A b \in DOMAIN blocks :
        \A a1 \in Chain(blocks, b) : \A a2 \in Chain(blocks, b) :
            \A i \in DOMAIN blocks[a1].uncles : \A j \in DOMAIN blocks[a2].uncles :
                blocks[a1].uncles[i] = blocks[a2].uncles[j] => a1 = a2 /\ i = j

\* A miner was handed a block c, and has mined on a chain in which another
\* miner's block already cites c.
C20_Witness ==
    \E m \in Range(MINERS) : \E c \in DOMAIN blocks :
        /\ RunsOf(m, c) > 0
        /\ blocks[last_block[m]].miner = m
        /\ \E a \in Ancestors(blocks, last_block[m]) :
              blocks[a].miner # m /\ c \in Range(blocks[a].uncles)

\* C21: every uncle U cited by a block B is 1 to 7 generations below B, has a
\* miner (is not the genesis block), and has as parent a proper ancestor of
\* B, the block of B's parent path at height U.height - 1.
C21_UnclesWellFormed ==
    \A b \in DOMAIN blocks : \A i \in DOMAIN blocks[b].uncles :
        LET U == blocks[b].uncles[i] IN
        /\ U \in DOMAIN blocks
        /\ blocks[b].height - blocks[U].height >= 1
        /\ blocks[b].height - blocks[U].height <= 7
        /\ blocks[U].miner # None
        /\ blocks[U].previous \in Ancestors(blocks, b)
        /\ blocks[blocks[U].previous].height = blocks[U].height - 1

\* A block cites an uncle 7 generations below it.
C21_Witness ==
    \E b \in DOMAIN blocks : \E i \in DOMAIN blocks[b].uncles :
        blocks[b].height - blocks[blocks[b].uncles[i]].height = 7

====
